---------------------------- MODULE Spec2Model ----------------------------
(***************************************************************************)
(* A model of the GptNeoAttention trait of src/src/gpt_neo/attention.rs:   *)
(* the block-length search, the sliding-window look_back, split_heads,     *)
(* merge_heads, split_sequence_length_dim_to and attend.                   *)
(*                                                                         *)
(* A tensor is the record [shape, data]: shape is the sequence of its      *)
(* dimension sizes and data its elements in logical row-major order, so    *)
(* that two tensors are equal exactly when they have the same shape and    *)
(* the same element at every index.  Indices are 0-based, as in the code.  *)
(* A call of the trait ends in one of three ways: Ok(tensor), the          *)
(* Err(ValueError) the code builds, or a panic raised by the tensor        *)
(* library or by Rust (a view to a shape of another element count, an      *)
(* unfold larger than the dimension, an index out of bounds, a division    *)
(* by zero).                                                               *)
(***************************************************************************)
EXTENDS Integers, Sequences, FiniteSets, TLC

VARIABLES
    op,            \* the function called last, "none" before any call
    input_tensor,  \* the tensor the caller owns
    args,          \* the scalar arguments (and, for attend, the tensors)
    prev,          \* the result a chained call took its input from
    result,        \* what the last call returned
    pc,            \* position in get_block_length_and_num_blocks
    block_length,  \* its local block_length
    num_blocks,    \* its local num_blocks
    decrements     \* how often line 21 has run

vars == <<op, input_tensor, args, prev, result, pc, block_length, num_blocks,
          decrements>>

-----------------------------------------------------------------------------
(* Bounds of the model.                                                    *)

MaxBatch == 1
MaxDim == 2
MaxHeads == 2
MaxHeadSize == 2

\* Option<T>: None or Some(v)
None == <<>>
Some(v) == <<v>>
unwrap(o) == o[1]

\* no call has returned yet
NoResult == [tag |-> "None"]

-----------------------------------------------------------------------------
(* Tensors.                                                                *)

RECURSIVE Numel(_)
Numel(shape) ==
    IF shape = <<>> THEN 1 ELSE Head(shape) * Numel(Tail(shape))

RECURSIVE Offset(_, _)
Offset(shape, idx) ==
    IF shape = <<>> THEN 0
    ELSE Head(idx) * Numel(Tail(shape)) + Offset(Tail(shape), Tail(idx))

RECURSIVE Index(_, _)
Index(shape, k) ==
    IF shape = <<>> THEN <<>>
    ELSE <<k \div Numel(Tail(shape))>>
             \o Index(Tail(shape), k % Numel(Tail(shape)))

At(t, idx) == t.data[Offset(t.shape, idx) + 1]

\* the indices of a tensor of a shape
Idx(shape) == {Index(shape, k - 1) : k \in 1..Numel(shape)}

Indices(t) == Idx(t.shape)

\* The tensor of a shape whose element at index idx is f[idx].  SubSeq makes
\* the elements a sequence of values, computed once.
Tensor(shape, f) ==
    [shape |-> shape,
     data  |-> SubSeq([k \in 1..Numel(shape) |-> f[Index(shape, k - 1)]],
                      1, Numel(shape))]

size(t) == t.shape

\* Tensor::permute(dims): dimension p of the result is dimension dims[p] of t.
permute(t, dims) ==
    LET n == Len(dims)
        src(idx) == [d \in 1..n |-> idx[CHOOSE p \in 1..n : dims[p] = d - 1]]
        to == [p \in 1..n |-> t.shape[dims[p] + 1]]
    IN  Tensor(to, [idx \in Idx(to) |-> At(t, src(idx))])

\* Tensor::transpose(dim0, dim1), the dimensions counted from 0.
transpose(t, dim0, dim1) ==
    LET n == Len(t.shape)
        swap(d) == IF d = dim0 THEN dim1 ELSE IF d = dim1 THEN dim0 ELSE d
    IN  permute(t, [p \in 1..n |-> swap(p - 1)])

\* Tensor::view / Tensor::reshape of a contiguous tensor: the same elements in
\* the same row-major order under another shape; the library panics when the
\* element counts differ.
ViewOk(t, shape) == Numel(shape) = Numel(t.shape)
view(t, shape) == [shape |-> shape, data |-> t.data]

\* Tensor::contiguous changes the memory layout only, never an element.
contiguous(t) == t

-----------------------------------------------------------------------------
(* Results.                                                                *)

Ok(t) == [tag |-> "Ok", tensor |-> t]
ValueError(a, b, n) == [tag |-> "Err", expected |-> {a, b}, got |-> n]
Panic == [tag |-> "Panic"]

\* Vec::pop, Vec::truncate, Vec::push
pop(v) == IF v = <<>> THEN v ELSE SubSeq(v, 1, Len(v) - 1)
truncate(v, n) == IF n >= Len(v) THEN v ELSE SubSeq(v, 1, n)
push(v, e) == Append(v, e)

-----------------------------------------------------------------------------
(* split_heads and merge_heads.                                            *)

split_heads(t, num_heads, attention_head_size) ==
    LET new_shape == pop(size(t)) \o <<num_heads, attention_head_size>>
    IN  IF ~ViewOk(t, new_shape) THEN Panic
        ELSE LET reshaped_tensor == view(t, new_shape)
             IN  CASE Len(size(reshaped_tensor)) = 5 ->
                          Ok(permute(reshaped_tensor, <<0, 1, 3, 2, 4>>))
                   [] Len(size(reshaped_tensor)) = 4 ->
                          Ok(permute(reshaped_tensor, <<0, 2, 1, 3>>))
                   [] OTHER -> ValueError(4, 5, Len(size(t)))

merge_heads(t, num_heads, attention_head_size) ==
    CASE Len(size(t)) \in {4, 5} ->
             LET output_tensor ==
                     IF Len(size(t)) = 5
                     THEN contiguous(permute(t, <<0, 1, 3, 2, 4>>))
                     ELSE contiguous(permute(t, <<0, 2, 1, 3>>))
                 new_shape ==
                     push(truncate(size(t), Len(size(t)) - 2),
                          num_heads * attention_head_size)
             IN  IF ViewOk(output_tensor, new_shape)
                 THEN Ok(view(output_tensor, new_shape))
                 ELSE Panic
      [] OTHER -> ValueError(4, 5, Len(size(t)))

-----------------------------------------------------------------------------
(* The callers of split_heads and merge_heads.  The elements of the input  *)
(* are pairwise distinct, so that every move of an element is visible.     *)

Iota(shape) == Tensor(shape, [idx \in Idx(shape) |-> Offset(shape, idx) + 1])

RECURSIVE LeadingShapes(_)
LeadingShapes(n) ==
    IF n = 0 THEN {<<>>}
    ELSE IF n = 1 THEN {<<b>> : b \in 1..MaxBatch}
    ELSE {Append(s, d) : s \in LeadingShapes(n - 1), d \in 1..MaxDim}

HeadRanks == 0..5

HeadShapes(num_heads, attention_head_size) ==
    {<<>>} \cup
    {Append(s, last) :
        s \in UNION {LeadingShapes(r - 1) : r \in HeadRanks \ {0}},
        last \in {num_heads * attention_head_size,
                  num_heads * attention_head_size + 1}}

NoLoop ==
    /\ pc = "idle"
    /\ block_length = 0
    /\ num_blocks = 0
    /\ decrements = 0

InitHeads ==
    /\ op = "none"
    /\ args \in [num_heads : 1..MaxHeads, attention_head_size : 1..MaxHeadSize]
    /\ input_tensor \in
           {Iota(s) : s \in HeadShapes(args.num_heads, args.attention_head_size)}
    /\ prev = NoResult
    /\ result = NoResult
    /\ NoLoop

SplitHeads ==
    /\ op = "none"
    /\ pc = "idle"
    /\ "num_heads" \in DOMAIN args
    /\ op' = "split_heads"
    /\ result' = split_heads(input_tensor, args.num_heads,
                             args.attention_head_size)
    /\ UNCHANGED <<input_tensor, args, prev, pc, block_length, num_blocks,
                   decrements>>

\* merge_heads, called on the caller's tensor or on what split_heads returned.
MergeHeads ==
    /\ pc = "idle"
    /\ "num_heads" \in DOMAIN args
    /\ \/ /\ op = "none"
          /\ prev' = prev
          /\ result' = merge_heads(input_tensor, args.num_heads,
                                   args.attention_head_size)
       \/ /\ op = "split_heads"
          /\ result.tag = "Ok"
          /\ prev' = result
          /\ result' = merge_heads(result.tensor, args.num_heads,
                                   args.attention_head_size)
    /\ op' = "merge_heads"
    /\ UNCHANGED <<input_tensor, args, pc, block_length, num_blocks,
                   decrements>>

NextHeads == SplitHeads \/ MergeHeads

SpecHeads == InitHeads /\ [][NextHeads]_vars

-----------------------------------------------------------------------------
(* Tensor primitives used by look_back.                                    *)

\* Tensor + i64 (Tensor - v is add_scalar(t, -v))
add_scalar(t, v) == Tensor(t.shape, [idx \in Idx(t.shape) |-> At(t, idx) + v])

\* Tensor::constant_pad_nd(pad): pad = <<left, right>> of the last dimension,
\* then of the one before it, and so on; the new elements are 0.
constant_pad_nd(t, pad) ==
    LET n == Len(t.shape)
        padded(d) == (n - d) * 2 + 2 <= Len(pad)
        left(d) == IF padded(d) THEN pad[(n - d) * 2 + 1] ELSE 0
        right(d) == IF padded(d) THEN pad[(n - d) * 2 + 2] ELSE 0
        inside(idx) ==
            \A d \in 1..n : idx[d] - left(d) \in 0..(t.shape[d] - 1)
        to == [d \in 1..n |-> left(d) + t.shape[d] + right(d)]
    IN  Tensor(to, [idx \in Idx(to) |->
                       IF inside(idx)
                       THEN At(t, [d \in 1..n |-> idx[d] - left(d)])
                       ELSE 0])

\* Tensor::unfold(dimension, size, step): every slice of `size` (wsize)
\* elements of the dimension, `step` apart, in a new last dimension; the
\* library panics when the dimension is shorter than size or step is not
\* positive.
UnfoldOk(t, dimension, wsize, step) ==
    /\ dimension + 1 \in 1..Len(t.shape)
    /\ wsize <= t.shape[dimension + 1]
    /\ step > 0

unfold(t, dimension, wsize, step) ==
    LET n == Len(t.shape)
        windows == (t.shape[dimension + 1] - wsize) \div step + 1
        to == [d \in 1..(n + 1) |->
                   IF d = n + 1 THEN wsize
                   ELSE IF d = dimension + 1 THEN windows ELSE t.shape[d]]
    IN  Tensor(to, [idx \in Idx(to) |->
                       At(t, [d \in 1..n |->
                                 IF d = dimension + 1
                                 THEN idx[d] * step + idx[n + 1]
                                 ELSE idx[d]])])

-----------------------------------------------------------------------------
(* look_back.                                                              *)

\* lines 34-36, for a rank the match accepts
padding_size(rank, window_size) ==
    IF rank = 3 THEN <<0, 0, window_size, 0>> ELSE <<window_size, 0>>

\* padded_tensor with the pad value ignored: the padding is always 0
padded_tensor_zero(t, padding, pad_value) == constant_pad_nd(t, padding)

\* lines 45-54
padded_tensor(t, padding, pad_value) ==
    IF pad_value = None \/ unwrap(pad_value) = 0
    THEN constant_pad_nd(t, padding)
    ELSE add_scalar(constant_pad_nd(add_scalar(t, -unwrap(pad_value)),
                                    padding),
                    unwrap(pad_value))

look_back(t, blen, window_size, pad_value, is_key_value) ==
    IF Len(size(t)) \notin {2, 3} THEN ValueError(2, 3, Len(size(t)))
    ELSE LET padding == padding_size(Len(size(t)), window_size)
             padded == padded_tensor(t, padding, pad_value)
         IN  IF ~UnfoldOk(padded, 1, window_size + blen, blen) THEN Panic
             ELSE LET unfolded == unfold(padded, 1, window_size + blen, blen)
                      n == Len(size(unfolded))
                  IN  IF is_key_value
                      THEN Ok(transpose(unfolded, n - 2, n - 1))
                      ELSE Ok(unfolded)

-----------------------------------------------------------------------------
(* split_sequence_length_dim_to.                                           *)

\* split_sequence_length_dim_to with the two factors in the other order
split_sequence_length_dim_to_swapped(t, dim_factor_1, dim_factor_2, hidden_size) ==
    IF Len(size(t)) = 0 THEN Panic
    ELSE LET batch_size == size(t)[1]
             split_dim_shape == <<batch_size, dim_factor_2, dim_factor_1>>
         IN  CASE Len(size(t)) = 3 ->
                      IF ViewOk(t, push(split_dim_shape, hidden_size))
                      THEN Ok(view(t, push(split_dim_shape, hidden_size)))
                      ELSE Panic
               [] Len(size(t)) = 2 ->
                      IF ViewOk(t, split_dim_shape)
                      THEN Ok(view(t, split_dim_shape))
                      ELSE Panic
               [] OTHER -> ValueError(2, 3, Len(size(t)))

split_sequence_length_dim_to(t, dim_factor_1, dim_factor_2, hidden_size) ==
    IF Len(size(t)) = 0 THEN Panic      \* size()[0] of an empty Vec
    ELSE LET batch_size == size(t)[1]
             split_dim_shape == <<batch_size, dim_factor_1, dim_factor_2>>
         IN  CASE Len(size(t)) = 3 ->
                      IF ViewOk(t, push(split_dim_shape, hidden_size))
                      THEN Ok(view(t, push(split_dim_shape, hidden_size)))
                      ELSE Panic
               [] Len(size(t)) = 2 ->
                      IF ViewOk(t, split_dim_shape)
                      THEN Ok(view(t, split_dim_shape))
                      ELSE Panic
               [] OTHER -> ValueError(2, 3, Len(size(t)))

-----------------------------------------------------------------------------
(* get_block_length_and_num_blocks, one step of its loop at a time, and    *)
(* its callers.                                                            *)

MaxSeq == 6
MaxWindow == 4
MaxHidden == 2

\* Rust's i64 remainder: the sign of the dividend; a zero divisor panics.
Abs(a) == IF a < 0 THEN -a ELSE a
rem(a, b) == IF a < 0 THEN -(Abs(a) % Abs(b)) ELSE a % Abs(b)

\* line 19
initial_block_length(window_size) == window_size

\* the loop condition with the operands of % exchanged
loop_condition_swapped(sequence_length, blen) == rem(blen, sequence_length) # 0

\* line 20
loop_condition(sequence_length, blen) == rem(sequence_length, blen) # 0

\* a step of two
decrement_by_two(blen) == blen - 2

\* line 21
decrement(blen) == blen - 1

LocalRanks == 0..4
PadValues == {None, Some(0), Some(-1), Some(3)}

LocalShape(rank, batch, sequence_length, hidden) ==
    SubSeq(<<batch, sequence_length, hidden, 1>>, 1, rank)

InitLocal ==
    /\ op = "none"
    /\ args \in [sequence_length : 1..MaxSeq, window_size : 1..MaxWindow,
                 hidden_size : 1..MaxHidden, pad_value : PadValues,
                 is_key_value : BOOLEAN]
    /\ \E rank \in LocalRanks, batch \in 1..MaxBatch :
           input_tensor = Iota(LocalShape(rank, batch, args.sequence_length,
                                          args.hidden_size))
    /\ prev = NoResult
    /\ result = NoResult
    /\ pc = "call"
    /\ block_length = 0
    /\ num_blocks = 0
    /\ decrements = 0

BlockEnter ==
    /\ pc = "call"
    /\ block_length' = initial_block_length(args.window_size)
    /\ pc' = "while"
    /\ UNCHANGED <<op, input_tensor, args, prev, result, num_blocks, decrements>>

BlockLoop ==
    /\ pc = "while"
    /\ IF block_length = 0
       THEN /\ pc' = "panic"
            /\ UNCHANGED <<block_length, decrements>>
       ELSE /\ loop_condition(args.sequence_length, block_length)
            /\ block_length' = decrement(block_length)
            /\ decrements' = decrements + 1
            /\ pc' = "while"
    /\ UNCHANGED <<op, input_tensor, args, prev, result, num_blocks>>

BlockExit ==
    /\ pc = "while"
    /\ block_length # 0
    /\ ~loop_condition(args.sequence_length, block_length)
    /\ num_blocks' = args.sequence_length \div block_length
    /\ pc' = "done"
    /\ UNCHANGED <<op, input_tensor, args, prev, result, block_length,
                   decrements>>

LookBack ==
    /\ pc = "done"
    /\ op = "none"
    /\ op' = "look_back"
    /\ result' = look_back(input_tensor, block_length, args.window_size,
                           args.pad_value, args.is_key_value)
    /\ UNCHANGED <<input_tensor, args, prev, pc, block_length, num_blocks,
                   decrements>>

\* The caller splits the queries into blocks, before or after it has built
\* the windows of the keys over the same sequence.
SplitSequenceLengthDimTo ==
    /\ pc = "done"
    /\ op \in {"none", "look_back"}
    /\ op' = "split_sequence_length_dim_to"
    /\ prev' = result
    /\ result' = split_sequence_length_dim_to(input_tensor, num_blocks,
                                              block_length, args.hidden_size)
    /\ UNCHANGED <<input_tensor, args, pc, block_length, num_blocks,
                   decrements>>

NextLocal ==
    BlockEnter \/ BlockLoop \/ BlockExit \/ LookBack \/ SplitSequenceLengthDimTo

SpecLocal == InitLocal /\ [][NextLocal]_vars

-----------------------------------------------------------------------------
(* Tensor primitives used by attend, on matrices (the leading batch and    *)
(* head dimensions, over which every primitive here works elementwise or   *)
(* by broadcast, are left out).  Scores are integers.                      *)
(*                                                                         *)
(* softmax yields positive reals that sum to 1 in every row.  Its value at *)
(* a position is represented by its logarithm up to the row's normalising  *)
(* constant, lw = x - max(row): softmax(x) = softmax(y) holds on a row     *)
(* exactly when x - max(x) = y - max(y), so two softmax results are equal  *)
(* exactly when their representations are.  A weight is                    *)
(*   [zero |-> FALSE, lw |-> n, scaled |-> s]   exp(n) / Z, times 1/(1-p)  *)
(*                                              when s (kept by dropout),  *)
(*   [zero |-> TRUE,  lw |-> 0, scaled |-> FALSE]   0 (zeroed by dropout). *)
(* The product of a weight matrix and an integer matrix is kept as the     *)
(* formal sum of its terms, one per inner index.                           *)

RECURSIVE SumSeq(_)
SumSeq(q) == IF q = <<>> THEN 0 ELSE Head(q) + SumSeq(Tail(q))

RECURSIVE MaxOf(_)
MaxOf(q) ==
    IF Len(q) = 1 THEN Head(q)
    ELSE LET m == MaxOf(Tail(q)) IN IF Head(q) > m THEN Head(q) ELSE m

Row(t, i) == [j \in 1..t.shape[2] |-> At(t, <<i, j - 1>>)]

\* Tensor::matmul of two integer matrices
matmul(a, b) ==
    Tensor(<<a.shape[1], b.shape[2]>>,
           [idx \in Idx(<<a.shape[1], b.shape[2]>>) |->
               SumSeq([k \in 1..a.shape[2] |->
                          At(a, <<idx[1], k - 1>>) * At(b, <<k - 1, idx[2]>>)])])

\* Tensor::matmul of a weight matrix and an integer matrix
matmul_weights(w, v) ==
    Tensor(<<w.shape[1], v.shape[2]>>,
           [idx \in Idx(<<w.shape[1], v.shape[2]>>) |->
               [k \in 1..w.shape[2] |->
                   [weight |-> At(w, <<idx[1], k - 1>>),
                    times  |-> At(v, <<k - 1, idx[2]>>)]]])

\* Tensor::where1(condition, other): self where the condition holds, the
\* scalar tensor `other` elsewhere.
where1(t, condition, other) ==
    Tensor(t.shape,
           [idx \in Idx(t.shape) |->
               IF At(condition, idx) THEN At(t, idx) ELSE other])

\* a + b, b broadcast along every dimension in which it has size 1
add(a, b) ==
    Tensor(a.shape,
           [idx \in Idx(a.shape) |->
               At(a, idx) + At(b, [d \in 1..Len(idx) |->
                                      IF b.shape[d] = 1 THEN 0 ELSE idx[d]])])

\* Tensor::softmax(-1, Kind::Float)
softmax(t) ==
    Tensor(t.shape,
           [idx \in Idx(t.shape) |->
               [zero |-> FALSE,
                lw |-> At(t, idx) - MaxOf(Row(t, idx[1])),
                scaled |-> FALSE]])

\* Dropout::forward_t: the identity unless training; in training the
\* elements the random draw `keep` keeps are scaled by 1/(1-p), the others
\* are zeroed.
apply_t(t, keep, train) ==
    IF ~train THEN t
    ELSE Tensor(t.shape,
                [idx \in Idx(t.shape) |->
                    IF At(keep, idx)
                    THEN [At(t, idx) EXCEPT !.scaled = TRUE]
                    ELSE [zero |-> TRUE, lw |-> 0, scaled |-> FALSE]])

-----------------------------------------------------------------------------
(* attend.                                                                 *)

\* the scores multiplied by the head size
scores_scaled(query, key) ==
    LET raw == matmul(query, transpose(key, 1, 0))
    IN  Tensor(raw.shape,
               [idx \in Idx(raw.shape) |-> At(raw, idx) * key.shape[2]])

\* lines 142-143
scores(query, key) == matmul(query, transpose(key, 1, 0))

\* lines 142-144
masked_scores(query, key, causal_mask, masked_bias) ==
    where1(scores(query, key), causal_mask, masked_bias)

\* lines 146-148
with_attention_mask(attention_weights, attention_mask) ==
    IF attention_mask # None
    THEN add(attention_weights, unwrap(attention_mask))
    ELSE attention_weights

\* lines 150-152
normalised(attention_weights, attention_dropout, train) ==
    apply_t(softmax(attention_weights), attention_dropout, train)

\* attend with the attention mask added before the causal mask is applied
attend_mask_first(query, key, value, causal_mask, masked_bias, attention_dropout, attention_mask, train) ==
    LET attention_weights ==
            normalised(
                where1(with_attention_mask(scores(query, key), attention_mask),
                       causal_mask, masked_bias),
                attention_dropout, train)
        attention_output == matmul_weights(attention_weights, value)
    IN  [tag |-> "Pair", output |-> attention_output,
         weights |-> attention_weights]

\* attention_dropout is the draw the dropout layer makes in this call
attend(query, key, value, causal_mask, masked_bias, attention_dropout, attention_mask, train) ==
    LET attention_weights ==
            normalised(
                with_attention_mask(
                    masked_scores(query, key, causal_mask, masked_bias),
                    attention_mask),
                attention_dropout, train)
        attention_output == matmul_weights(attention_weights, value)
    IN  [tag |-> "Pair", output |-> attention_output,
         weights |-> attention_weights]

-----------------------------------------------------------------------------
(* The caller of attend.                                                   *)

MaxQuery == 2
MaxKey == 2
MaxDropped == 1

Fill(shape, v) == Tensor(shape, [idx \in Idx(shape) |-> v])

QueryValues == {-1, 2}
MaskedBiases == {-9}
MaskPenalties == {-7}

\* the draws of the dropout layer that zero at most MaxDropped weights
DropoutDraws(shape) ==
    {[shape |-> shape, data |-> d] :
        d \in {e \in [1..Numel(shape) -> BOOLEAN] :
                  Cardinality({k \in DOMAIN e : ~e[k]}) <= MaxDropped}}

\* the masks the callers build: position j is visible from query i when
\* j <= i + offset (offset = key length - query length for the global layers)
CausalMasks(nq, nk) ==
    {Tensor(<<nq, nk>>, [idx \in Idx(<<nq, nk>>) |-> idx[2] <= idx[1] + o]) :
        o \in (-1)..(nk - 1)}

\* the additive masks the callers build: 0 at a token, a penalty at each of
\* the `padded` leading positions
AttentionMasks(nk) ==
    {None} \cup
    {Some(Tensor(<<1, nk>>, [idx \in Idx(<<1, nk>>) |->
                                IF idx[2] < padded THEN penalty ELSE 0])) :
        padded \in 0..nk, penalty \in MaskPenalties}

InitAttend ==
    /\ op = "none"
    /\ \E nq \in 1..MaxQuery, nk \in 1..MaxKey, hs \in 1..MaxHeadSize,
          qv \in QueryValues, train \in BOOLEAN :
          args \in [query : {Fill(<<nq, hs>>, qv)},
                    key : {Iota(<<nk, hs>>)},
                    value : {Iota(<<nk, 1>>)},
                    causal_mask : CausalMasks(nq, nk),
                    masked_bias : MaskedBiases,
                    attention_dropout :
                        IF train THEN DropoutDraws(<<nq, nk>>)
                        ELSE {Fill(<<nq, nk>>, TRUE)},
                    attention_mask : AttentionMasks(nk),
                    train : {train}]
    /\ input_tensor = args.query
    /\ prev = NoResult
    /\ result = NoResult
    /\ NoLoop

Attend ==
    /\ op = "none"
    /\ pc = "idle"
    /\ "query" \in DOMAIN args
    /\ op' = "attend"
    /\ result' = attend(args.query, args.key, args.value, args.causal_mask,
                        args.masked_bias, args.attention_dropout,
                        args.attention_mask, args.train)
    /\ UNCHANGED <<input_tensor, args, prev, pc, block_length, num_blocks,
                   decrements>>

NextAttend == Attend

SpecAttend == InitAttend /\ [][NextAttend]_vars

-----------------------------------------------------------------------------
(* The whole trait.                                                        *)

Init == InitHeads \/ InitLocal \/ InitAttend

Next ==
    \/ SplitHeads
    \/ MergeHeads
    \/ BlockEnter
    \/ BlockLoop
    \/ BlockExit
    \/ LookBack
    \/ SplitSequenceLengthDimTo
    \/ Attend

Spec == Init /\ [][Next]_vars

-----------------------------------------------------------------------------
(* Properties of split_heads and merge_heads.                              *)

Rank(t) == Len(t.shape)
LastDim(t) == t.shape[Len(t.shape)]

HeadsCall == "num_heads" \in DOMAIN args
LocalCall == "window_size" \in DOMAIN args
AttendCall == "query" \in DOMAIN args

\* split_heads was called on a tensor of rank 3 or 4 whose last dimension is
\* num_heads * attention_head_size, and merge_heads on what it returned
SplitThenMerge ==
    /\ HeadsCall
    /\ op = "merge_heads"
    /\ prev.tag = "Ok"
    /\ Rank(input_tensor) \in {3, 4}
    /\ LastDim(input_tensor) = args.num_heads * args.attention_head_size

\* the index in the split tensor of the element of x at idx
SplitIndex(idx) ==
    LET n == Len(idx)
        h == idx[n] \div args.attention_head_size
        d == idx[n] % args.attention_head_size
    IN  IF n = 3 THEN <<idx[1], h, idx[2], d>>
        ELSE <<idx[1], idx[2], h, idx[3], d>>

\* C1: merge_heads inverts split_heads: for every tensor x of rank 3 or 4
\* whose last dimension is num_heads * attention_head_size,
\* merge_heads(split_heads(x)) succeeds and returns a tensor of the shape of x
\* with the same element at every index, the hidden index h*head_size + d of
\* x being the element at head h, offset d of the split tensor.
C1_MergeInvertsSplit ==
    SplitThenMerge =>
        /\ \A idx \in Indices(input_tensor) :
               At(prev.tensor, SplitIndex(idx)) = At(input_tensor, idx)
        /\ result.tag = "Ok"
        /\ result.tensor = input_tensor

\* the tensor the last call of merge_heads was given
MergeInput == IF prev.tag = "Ok" THEN prev.tensor ELSE input_tensor

\* a tensor of rank 4 or 5 that holds num_heads heads of attention_head_size
HoldsHeads(t) ==
    Rank(t) \in {4, 5} =>
        /\ t.shape[Rank(t) - 2] = args.num_heads
        /\ t.shape[Rank(t)] = args.attention_head_size

\* C4: shape validation is reported as an error value: look_back returns Err
\* exactly when the rank is not 2 or 3, merge_heads exactly when it is not 4
\* or 5, split_heads (last dimension num_heads * attention_head_size) exactly
\* when it is not 3 or 4; every accepted call returns Ok.
C4_ShapeValidation ==
    /\ (LocalCall /\ op = "look_back") =>
           /\ result.tag \in {"Ok", "Err"}
           /\ result.tag = "Err" <=> Rank(input_tensor) \notin {2, 3}
    /\ (HeadsCall /\ op = "merge_heads" /\ HoldsHeads(MergeInput)) =>
           /\ result.tag \in {"Ok", "Err"}
           /\ result.tag = "Err" <=> Rank(MergeInput) \notin {4, 5}
    /\ (/\ HeadsCall
        /\ op = "split_heads"
        /\ Rank(input_tensor) >= 1
        /\ LastDim(input_tensor) = args.num_heads * args.attention_head_size) =>
           /\ result.tag \in {"Ok", "Err"}
           /\ result.tag = "Err" <=> Rank(input_tensor) \notin {3, 4}

\* C9: the rank an "Invalid tensor rank, expected A or B, got n" error
\* reports is never one of the accepted ranks A and B of the same message.
C9_ReportedRankRejected ==
    result.tag = "Err" => result.got \notin result.expected

-----------------------------------------------------------------------------
(* Properties of the block split, look_back and                            *)
(* split_sequence_length_dim_to.                                           *)

\* C5: get_block_length_and_num_blocks returns the largest divisor of
\* sequence_length that is at most window_size, and the number of blocks of
\* that length.
C5_LargestDivisor ==
    (LocalCall /\ pc = "done") =>
        /\ 1 <= block_length
        /\ block_length <= args.window_size
        /\ block_length * num_blocks = args.sequence_length
        /\ \A d \in (block_length + 1)..args.window_size :
               args.sequence_length % d # 0

C5_Witness ==
    /\ LocalCall
    /\ pc = "done"
    /\ decrements >= 1
    /\ block_length >= 2
    /\ num_blocks >= 2

\* C6: the divisor search ends without a division by zero: the remainder is
\* never taken by a block_length of 0, every decrement lowers block_length by
\* one from window_size, and there are at most window_size - 1 of them.
C6_LoopTerminates ==
    LocalCall =>
        /\ pc # "panic"
        /\ pc = "while" => block_length >= 1
        /\ pc \in {"while", "done"} =>
               block_length = args.window_size - decrements
        /\ decrements <= args.window_size - 1

C6_Witness ==
    /\ LocalCall
    /\ pc = "done"
    /\ args.window_size >= 3
    /\ decrements = args.window_size - 1

PadValue == IF args.pad_value = None THEN 0 ELSE unwrap(args.pad_value)

\* the hidden indices of the caller's tensor (one, unused, at rank 2)
HiddenIndices ==
    IF Rank(input_tensor) = 3 THEN 0..(input_tensor.shape[3] - 1) ELSE {0}

\* the element of the caller's tensor at sequence position pos
InputAt(b, pos, h) ==
    IF Rank(input_tensor) = 3 THEN At(input_tensor, <<b, pos, h>>)
    ELSE At(input_tensor, <<b, pos>>)

\* Where look_back leaves window i, offset j: unfold appends the window
\* offset as the last dimension, and is_key_value exchanges the last two.
WindowShape(batch, blocks, length) ==
    IF Rank(input_tensor) = 3
    THEN IF args.is_key_value
         THEN <<batch, blocks, length, input_tensor.shape[3]>>
         ELSE <<batch, blocks, input_tensor.shape[3], length>>
    ELSE IF args.is_key_value
         THEN <<batch, length, blocks>>
         ELSE <<batch, blocks, length>>

WindowAt(t, b, i, j, h) ==
    IF Rank(input_tensor) = 3
    THEN IF args.is_key_value
         THEN At(t, <<b, i, j, h>>)
         ELSE At(t, <<b, i, h, j>>)
    ELSE IF args.is_key_value
         THEN At(t, <<b, j, i>>)
         ELSE At(t, <<b, i, j>>)

\* what window i, offset j has to hold
Expected(b, i, j, h) ==
    LET pos == i * block_length - args.window_size + j
    IN  IF pos < 0 THEN PadValue ELSE InputAt(b, pos, h)

\* C3: look_back on a tensor of rank 2 or 3 whose dimension 1 has the
\* sequence length yields num_blocks windows of length window_size +
\* block_length; window i holds, in order, the sequence positions
\* i*block_length - window_size .. (i+1)*block_length - 1, the pad value at
\* every position below 0 and the input's own value at every other.
C3_LookBackWindows ==
    (LocalCall /\ op = "look_back" /\ Rank(input_tensor) \in {2, 3}) =>
        /\ result.tag = "Ok"
        /\ result.tensor.shape =
               WindowShape(input_tensor.shape[1], num_blocks,
                           args.window_size + block_length)
        /\ \A b \in 0..(input_tensor.shape[1] - 1),
              i \in 0..(num_blocks - 1),
              j \in 0..(args.window_size + block_length - 1),
              h \in HiddenIndices :
               WindowAt(result.tensor, b, i, j, h) = Expected(b, i, j, h)
        /\ \A b \in 0..(input_tensor.shape[1] - 1),
              pos \in 0..(args.sequence_length - 1),
              h \in HiddenIndices :
               \E i \in 0..(num_blocks - 1),
                  j \in 0..(args.window_size + block_length - 1) :
                   /\ pos = i * block_length - args.window_size + j
                   /\ WindowAt(result.tensor, b, i, j, h) = InputAt(b, pos, h)

C3_Witness ==
    /\ LocalCall
    /\ op = "look_back"
    /\ result.tag = "Ok"
    /\ Rank(input_tensor) = 3
    /\ args.is_key_value
    /\ args.pad_value = Some(-1)
    /\ num_blocks >= 2
    /\ block_length >= 2
    /\ block_length < args.window_size

\* C7: split_sequence_length_dim_to returns Err(ValueError) for every tensor
\* whose rank is not 2 or 3 (ranks 0, 1, 4 and above) and fails in no other
\* way; at rank 2 it returns the shape [batch, dim_factor_1, dim_factor_2],
\* at rank 3 the shape [batch, dim_factor_1, dim_factor_2, hidden_size].
C7_SplitSequenceValidation ==
    (LocalCall /\ op = "split_sequence_length_dim_to") =>
        /\ Rank(input_tensor) \notin {2, 3} => result.tag = "Err"
        /\ Rank(input_tensor) = 2 =>
               /\ result.tag = "Ok"
               /\ result.tensor.shape =
                      <<input_tensor.shape[1], num_blocks, block_length>>
        /\ Rank(input_tensor) = 3 =>
               /\ result.tag = "Ok"
               /\ result.tensor.shape =
                      <<input_tensor.shape[1], num_blocks, block_length,
                        args.hidden_size>>

\* the element of the block tensor at block i, offset o
BlockAt(t, b, i, o, h) ==
    IF Rank(input_tensor) = 3 THEN At(t, <<b, i, o, h>>)
    ELSE At(t, <<b, i, o>>)

\* C10: query blocks line up with key windows:
\* split_sequence_length_dim_to(x, num_blocks, block_length, hidden) puts
\* sequence position s at block s div block_length, offset s mod
\* block_length; the last block_length entries of look_back window i are the
\* positions of block i, and the window of a query position holds that
\* position and the window_size positions before it (or padding).
C10_BlocksLineUp ==
    (/\ LocalCall
     /\ op = "split_sequence_length_dim_to"
     /\ Rank(input_tensor) \in {2, 3}) =>
        /\ result.tag = "Ok"
        /\ Numel(result.tensor.shape) = Numel(input_tensor.shape)
        /\ result.tensor.shape[2] = num_blocks
        /\ result.tensor.shape[3] = block_length
        /\ \A b \in 0..(input_tensor.shape[1] - 1),
              s \in 0..(args.sequence_length - 1),
              h \in HiddenIndices :
               BlockAt(result.tensor, b, s \div block_length,
                       s % block_length, h) = InputAt(b, s, h)
        /\ prev.tag = "Ok" =>
               \A b \in 0..(input_tensor.shape[1] - 1),
                  i \in 0..(num_blocks - 1),
                  o \in 0..(block_length - 1),
                  h \in HiddenIndices :
                   /\ WindowAt(prev.tensor, b, i, args.window_size + o, h)
                          = BlockAt(result.tensor, b, i, o, h)
                   /\ \A k \in 0..args.window_size :
                          WindowAt(prev.tensor, b, i,
                                   args.window_size + o - k, h)
                              = IF i * block_length + o - k < 0 THEN PadValue
                                ELSE InputAt(b, i * block_length + o - k, h)

C10_Witness ==
    /\ LocalCall
    /\ op = "split_sequence_length_dim_to"
    /\ prev.tag = "Ok"
    /\ result.tag = "Ok"
    /\ Rank(input_tensor) = 3
    /\ input_tensor.shape[3] >= 2
    /\ num_blocks >= 2
    /\ block_length >= 2

-----------------------------------------------------------------------------
(* Properties of attend.                                                   *)

Queries == 0..(args.query.shape[1] - 1)
Keys == 0..(args.key.shape[1] - 1)
HeadSize == args.query.shape[2]

\* the dot product of query i and key j
Dot(i, j) ==
    SumSeq([d \in 1..HeadSize |->
               At(args.query, <<i, d - 1>>) * At(args.key, <<j, d - 1>>)])

MaskAt(j) ==
    IF args.attention_mask = None THEN 0
    ELSE At(unwrap(args.attention_mask), <<0, j>>)

Visible(i, j) == At(args.causal_mask, <<i, j>>)

\* b times the score softmax is taken of, were the dot products multiplied
\* by a/b before the masks are applied
Logit(a, b, i, j) ==
    (IF Visible(i, j) THEN a * Dot(i, j) ELSE b * args.masked_bias)
        + b * MaskAt(j)

Weight(i, j) == At(result.weights, <<i, j>>)

\* the weights of row i are the softmax (dropout aside) of the scores whose
\* dot products were multiplied by a/b
RowIsSoftmaxOf(a, b, i) ==
    \A j \in Keys, k \in Keys :
        (~Weight(i, j).zero /\ ~Weight(i, k).zero) =>
            b * (Weight(i, j).lw - Weight(i, k).lw)
                = Logit(a, b, i, j) - Logit(a, b, i, k)

\* the scaling factors a/b other than 1 with terms up to the square of the
\* head size: 1/head_size, 1/sqrt(head_size) where it is rational, ...
ScaleFactors ==
    {f \in (1..(HeadSize * HeadSize)) \X (1..(HeadSize * HeadSize)) :
        f[1] # f[2]}

\* C2 as stated: the dot products are multiplied by a scaling factor, a
\* function of the head size (other than 1 for a head size above 1), before
\* the causal mask and the softmax: the weights are the softmax of scaled
\* scores, not of the raw query * key^T product.
C2_ScaledScores ==
    (AttendCall /\ op = "attend" /\ HeadSize > 1) =>
        \E f \in ScaleFactors : \A i \in Queries : RowIsSoftmaxOf(f[1], f[2], i)

\* C2, amended: attend does not scale: the causal mask, the attention mask
\* and the softmax are applied to the raw query * key^T product, so the
\* weights returned are (dropout aside) the softmax of the unscaled masked
\* scores.
C2_UnscaledScores ==
    (AttendCall /\ op = "attend") =>
        /\ \A i \in Queries : RowIsSoftmaxOf(1, 1, i)
        /\ \A i \in Queries : \E j \in Keys :
               Weight(i, j).zero \/ Weight(i, j).lw = 0

C2_Witness ==
    /\ AttendCall
    /\ op = "attend"
    /\ HeadSize > 1
    /\ ~args.train
    /\ \E i \in Queries, j \in Keys, k \in Keys :
           /\ Visible(i, j)
           /\ Visible(i, k)
           /\ Dot(i, j) # Dot(i, k)

\* the largest score of row i
RowMax(i) ==
    CHOOSE m \in {Logit(1, 1, i, j) : j \in Keys} :
        \A j \in Keys : Logit(1, 1, i, j) <= m

\* C8: attend applies, in this order: the query * key^T scores; masked_bias
\* in place of every score the causal mask hides; the attention mask, added
\* at all positions, the hidden ones too; the softmax over the last
\* dimension; dropout, in training only.  The weights returned are the
\* tensor after dropout, whose product with value is the output.
C8_AttendOrder ==
    (AttendCall /\ op = "attend") =>
        /\ result.weights.shape = <<Cardinality(Queries), Cardinality(Keys)>>
        /\ \A i \in Queries, j \in Keys :
               Weight(i, j) =
                   IF args.train /\ ~At(args.attention_dropout, <<i, j>>)
                   THEN [zero |-> TRUE, lw |-> 0, scaled |-> FALSE]
                   ELSE [zero |-> FALSE,
                         lw |-> Logit(1, 1, i, j) - RowMax(i),
                         scaled |-> args.train]
        /\ result.output.shape = <<Cardinality(Queries), args.value.shape[2]>>
        /\ \A i \in Queries, c \in 0..(args.value.shape[2] - 1) :
               At(result.output, <<i, c>>) =
                   [j \in 1..Cardinality(Keys) |->
                       [weight |-> Weight(i, j - 1),
                        times |-> At(args.value, <<j - 1, c>>)]]

C8_Witness ==
    /\ AttendCall
    /\ op = "attend"
    /\ args.train
    /\ \E i \in Queries, j \in Keys, k \in Keys :
           /\ ~Visible(i, j)
           /\ MaskAt(j) # 0
           /\ Visible(i, k)
           /\ Weight(i, k).zero
           /\ ~Weight(i, j).zero

=============================================================================
